---- MODULE Spec2Model ----
(***************************************************************************)
(* Model of rjq (src/src/lib.rs): a job queue kept in a Redis-like store.  *)
(* Producers enqueue job records and push their uuid on a list; workers    *)
(* pop uuids, mark the record RUNNING, run the processing function on a    *)
(* detached thread and poll a channel for its outcome against a timeout.   *)
(*                                                                         *)
(* Time is counted in milliseconds and advances in steps of TickMs.  Every *)
(* timer (the TTL of a key, the rest of a sleep, the rest of a BLPOP wait) *)
(* is kept as the time that remains and counted down by Tick.  The store   *)
(* is reliable and is called with valid arguments (every TTL >= 1 s); its  *)
(* single commands (GET, SETEX, DEL, RPUSH, BLPOP) are atomic.             *)
(***************************************************************************)
EXTENDS Integers, Sequences, FiniteSets, TLC

\* ---------------------------------------------------------------- bounds
\* Number of uuids the generator hands out (jobs that are ever enqueued).
MaxJobs == 2

\* The processes that call Queue::work.
Workers == {"w1", "w2"}

\* Values of the parameters of enqueue and work that are explored.
EnqueueExpires == {1}
Waits == {0, 1}
Timeouts == {2}
Freqs == {0, 1}
ResultExpires == {1}
ArgsSet == {<<>>}
\* Strings the processing function may return in Ok(..).
Outputs == {"ok"}

\* ------------------------------------------------------------- constants
\* 1000 ms per second: the sleep of 1000 / freq ms between two checks, and
\* the store's TTLs, which are given in seconds.
MsPerSec == 1000
\* Step of the clock: one second, the unit of the TTLs and the sleep of
\* 1000 / freq ms for freq = 1.
TickMs == MsPerSec

Uuids == 1..MaxJobs
\* Option::None of Job.result.
None == "None"
\* A key that does not exist (never set, deleted, or expired).
NoRec == [json |-> <<>>, ttl |-> 0]
\* A channel with no message in it.
Empty == <<>>
\* No uuid: the worker holds no job.
NoUuid == 0

Min(a, b) == IF a < b THEN a ELSE b
Max(a, b) == IF a > b THEN a ELSE b

VARIABLES
    store,      \* key <name>:<uuid> -> [json, ttl] or NoRec
    uuids,      \* the list <name>:uuids
    nextUuid,   \* the uuid generator: the next fresh uuid
    prod,       \* the producer inside enqueue: [pc, uuid]
    wk,         \* each worker inside work: parameters, position, locals
    task,       \* the detached thread of each job: [st, ret, age]
    chan,       \* the channel (tx, rx) of each job: a message or Empty
    hist,       \* per uuid, what has happened to it (history)
    sinceDrop,  \* [dropped, pushed]: the uuids pushed since the last drop()
    order       \* [pushed, popped]: the uuids in the order of RPUSH, of BLPOP

vars == <<store, uuids, nextUuid, prod, wk, task, chan, hist, sinceDrop, order>>

\* ------------------------------------------------------------ Job, Status
Statuses == {"QUEUED", "RUNNING", "LOST", "FINISHED", "FAILED"}

\* Job::new with an empty string for the result that is not there yet.
NewJobEmptyResult(uuid, args) ==
    [uuid |-> uuid, status |-> "QUEUED", args |-> args, result |-> ""]

\* Job::new: status QUEUED, no result.
NewJob(uuid, args) ==
    [uuid |-> uuid, status |-> "QUEUED", args |-> args, result |-> None]

\* serde_json::to_string(&job): the object's fields in declaration order.
ToJson(job) == <<job.uuid, job.status, job.args, job.result>>

\* serde_json::from_str(&json).
FromJson(json) ==
    [uuid |-> json[1], status |-> json[2], args |-> json[3], result |-> json[4]]

\* ------------------------------------------------------------------ store
\* SetEx whose write does not reach the store.
SetExNotStored(st, key, value, seconds) == st

\* SetEx that adds the seconds to the time the key had left.
SetExAdds(st, key, value, seconds) ==
    [st EXCEPT ![key] = [json |-> value, ttl |-> @.ttl + seconds * MsPerSec]]

\* SETEX key value seconds: the value is set and the key's time to live is
\* set to seconds, whatever it was.
SetEx(st, key, value, seconds) ==
    [st EXCEPT ![key] = [json |-> value, ttl |-> seconds * MsPerSec]]

\* GET key: Ok(value) or an error when the key is missing or expired.
Exists(key) == store[key].ttl > 0

\* Queue::status(uuid): the status, or the error of a missing key.
StatusOf(uuid) ==
    IF Exists(uuid) THEN FromJson(store[uuid].json).status ELSE "NotFound"

\* Queue::result(uuid): the result field, or the error of a missing key.
ResultOf(uuid) ==
    IF Exists(uuid) THEN FromJson(store[uuid].json).result ELSE "NotFound"

\* ------------------------------------------------------------------ work
\* PollBudget with one more check, made after the last sleep.
PollBudgetLastLook(timeout, freq) ==
    timeout * freq + (IF freq > 0 THEN 1 ELSE 0)

\* PollBudget with twice the checks.
PollBudgetTwice(timeout, freq) == 2 * timeout * freq

\* The number of completion checks: 0..(timeout * freq).
PollBudget(timeout, freq) == timeout * freq

\* sleep(Duration::from_millis(1000 / freq as u64)).
SleepMs(freq) == MsPerSec \div freq

\* ClaimTtl without the expire: the timeout alone.
ClaimTtlTimeoutOnly(timeout, expire) == timeout

\* TTL of the RUNNING record.
ClaimTtl(timeout, expire) == timeout + expire

\* Outcome with the text of the error sent as the result of a failure.
OutcomeErrText(ret) ==
    IF ret[1] = "Ok" THEN <<"FINISHED", ret[2]>> ELSE <<"FAILED", "err">>

\* Outcome with the value of Ok(o) left out of the message.
OutcomeNoResult(ret) ==
    IF ret[1] = "Ok" THEN <<"FINISHED", None>> ELSE <<"FAILED", None>>

\* The thread's message: (FINISHED, Some(o)) for Ok(o), (FAILED, None) for Err.
Outcome(ret) ==
    IF ret[1] = "Ok" THEN <<"FINISHED", ret[2]>> ELSE <<"FAILED", None>>

\* TryRecv with the wrong default, unwrap_or((Status::QUEUED, None)).
TryRecvQueued(ch) == IF ch = Empty THEN <<"QUEUED", None>> ELSE ch

\* rx.try_recv().unwrap_or((Status::RUNNING, None)).
TryRecv(ch) == IF ch = Empty THEN <<"RUNNING", None>> ELSE ch

\* FinalStatus that leaves a job without an outcome to the next iteration:
\* it is written back as RUNNING.
FinalStatusStillRunning(status) ==
    IF status \in {"FINISHED", "FAILED"} THEN status ELSE "RUNNING"

\* FinalStatus without the conversion of RUNNING to LOST.
FinalStatusKept(status) == status

\* if job.status == Status::RUNNING { job.status = Status::LOST; }
FinalStatus(status) == IF status = "RUNNING" THEN "LOST" ELSE status

\* Panics with fall ignored.
PanicsOnLost(fall, status) == status = "LOST"

\* if fall && job.status == Status::LOST { panic!("LOST"); }
Panics(fall, status) == fall /\ status = "LOST"

\* NextIter without the repetition.
NextIterBreaks(infinite) == "exit"

\* NextIter without the break.
NextIterLoops(infinite) == "pop"

\* The position after an iteration, or after a pop that gave no job:
\* break when !infinite, else the next BLPOP.
NextIter(infinite) == IF infinite THEN "pop" ELSE "exit"

\* OnMissing with the error of GET passed on by ?: work returns Err.
OnMissingFails(infinite) == "failed"

\* OnMissing with the error of GET ignored: the iteration goes on.
OnMissingGoesOn(infinite) == "run"

\* What a GET error on the popped uuid's key leads to: the same break/continue.
OnMissing(infinite) == NextIter(infinite)

NullJob == NewJob(NoUuid, <<>>)

IdleWorker ==
    [pc |-> "idle", wait |-> 0, timeout |-> 0, freq |-> 1, expire |-> 1,
     fall |-> FALSE, infinite |-> FALSE,
     uuid |-> NoUuid, job |-> NullJob, k |-> 0, timer |-> 0]

ActivePcs == {"pop", "get", "run", "poll", "final", "after"}

NoTask == [st |-> "none", ret |-> <<>>, age |-> 0]

NoHist ==
    [status |-> None, ttl |-> 0, pushed |-> FALSE, pops |-> 0, starts |-> 0,
     lapsed |-> FALSE]

\* Largest runtime that is told apart: the first step beyond every timeout.
AgeCap == (CHOOSE t \in Timeouts : \A u \in Timeouts : u <= t) * MsPerSec + TickMs

Init ==
    /\ store = [u \in Uuids |-> NoRec]
    /\ uuids = <<>>
    /\ nextUuid = 1
    /\ prod = [pc |-> "idle", uuid |-> NoUuid]
    /\ wk = [w \in Workers |-> IdleWorker]
    /\ task = [u \in Uuids |-> NoTask]
    /\ chan = [u \in Uuids |-> Empty]
    /\ hist = [u \in Uuids |-> NoHist]
    /\ sinceDrop = [dropped |-> FALSE, pushed |-> <<>>]
    /\ order = [pushed |-> <<>>, popped |-> <<>>]

\* ---------------------------------------------------------------- enqueue
\* Queue::enqueue up to conn.set_ex: a new job is written with TTL expire.
EnqueueSet(args, expire) ==
    /\ prod.pc = "idle"
    /\ nextUuid <= MaxJobs
    /\ LET job == NewJob(nextUuid, args) IN
        /\ store' = SetEx(store, job.uuid, ToJson(job), expire)
        /\ prod' = [pc |-> "push", uuid |-> job.uuid]
        /\ hist' = [hist EXCEPT ![job.uuid].status = job.status,
                                ![job.uuid].ttl = expire]
    /\ nextUuid' = nextUuid + 1
    /\ UNCHANGED <<uuids, wk, task, chan, sinceDrop, order>>

\* RPush that adds at the head of the list, as LPUSH does.
RPushHead(list, uuid) == <<uuid>> \o list

\* RPUSH key uuid: the uuid is added at the tail of the list.
RPush(list, uuid) == Append(list, uuid)

\* Queue::enqueue from conn.rpush on: the uuid is appended to the list.
EnqueuePush ==
    /\ prod.pc = "push"
    /\ uuids' = RPush(uuids, prod.uuid)
    /\ prod' = [pc |-> "idle", uuid |-> NoUuid]
    /\ hist' = [hist EXCEPT ![prod.uuid].pushed = TRUE]
    /\ sinceDrop' = [sinceDrop EXCEPT !.pushed = Append(@, prod.uuid)]
    /\ order' = [order EXCEPT !.pushed = Append(@, prod.uuid)]
    /\ UNCHANGED <<store, nextUuid, wk, task, chan>>

\* The producer dies between set_ex and rpush.
ProducerCrash ==
    /\ prod.pc = "push"
    /\ prod' = [pc |-> "idle", uuid |-> NoUuid]
    /\ UNCHANGED <<store, uuids, nextUuid, wk, task, chan, hist, sinceDrop, order>>

\* Drop that deletes another key than <name>:uuids.
DropOtherKey ==
    /\ uuids' = uuids
    /\ sinceDrop' = [dropped |-> TRUE, pushed |-> <<>>]
    /\ UNCHANGED <<store, nextUuid, prod, wk, task, chan, hist, order>>

\* Queue::drop: DEL <name>:uuids.
Drop ==
    /\ uuids' = <<>>
    /\ sinceDrop' = [dropped |-> TRUE, pushed |-> <<>>]
    /\ UNCHANGED <<store, nextUuid, prod, wk, task, chan, hist, order>>

\* ------------------------------------------------------------------- work
\* Queue::work is called: the parameters are fixed and the loop is entered.
StartWork(w, wait, timeout, freq, expire, fall, infinite) ==
    /\ wk[w].pc = "idle"
    /\ wk' = [wk EXCEPT ![w] =
                [IdleWorker EXCEPT !.pc = "pop", !.wait = wait, !.timeout = timeout,
                                   !.freq = freq, !.expire = expire, !.fall = fall,
                                   !.infinite = infinite]]
    /\ UNCHANGED <<store, uuids, nextUuid, prod, task, chan, hist, sinceDrop, order>>

\* The worker's locals at the top of the loop: the next BLPOP, or the return.
AtLoopTop(r, pc) ==
    IF pc \in {"pop", "exit", "crashed"}
    THEN [r EXCEPT !.pc = pc, !.uuid = NoUuid, !.job = NullJob, !.k = 0, !.timer = 0]
    ELSE [r EXCEPT !.pc = pc]

\* LPop that reads the head and leaves it in the list.
LPopKeeps(list) == list

\* BLPOP's removal of the head of the list.
LPop(list) == Tail(list)

\* conn.blpop(&uuids_key, wait) returns [key, uuid]: the head is removed.
Pop(w) ==
    /\ wk[w].pc = "pop"
    /\ uuids # <<>>
    /\ LET uuid == Head(uuids) IN
        /\ uuids' = LPop(uuids)
        /\ wk' = [wk EXCEPT ![w].pc = "get", ![w].uuid = uuid]
        /\ hist' = [hist EXCEPT ![uuid].pops = @ + 1]
        /\ order' = [order EXCEPT !.popped = Append(@, uuid)]
    /\ UNCHANGED <<store, nextUuid, prod, task, chan, sinceDrop>>

\* conn.blpop returns nothing once the list has stayed empty for wait
\* seconds (wait = 0 blocks for ever): uuids.len() < 2, so break or continue.
\* How long the list has been empty is not tracked: the wait may be over
\* whenever the list is empty.
PopTimeout(w) ==
    /\ wk[w].pc = "pop"
    /\ uuids = <<>>
    /\ wk[w].wait # 0
    /\ wk' = [wk EXCEPT ![w] = AtLoopTop(@, NextIter(@.infinite))]
    /\ UNCHANGED <<store, uuids, nextUuid, prod, task, chan, hist, sinceDrop, order>>

\* conn.get(&key) and serde_json::from_str: the record is loaded, or the
\* missing key ends the iteration.
Get(w) ==
    /\ wk[w].pc = "get"
    /\ IF Exists(wk[w].uuid)
       THEN wk' = [wk EXCEPT ![w].pc = "run",
                             ![w].job = FromJson(store[wk[w].uuid].json)]
       ELSE wk' = [wk EXCEPT ![w] = AtLoopTop(@, OnMissing(@.infinite))]
    /\ UNCHANGED <<store, uuids, nextUuid, prod, task, chan, hist, sinceDrop, order>>

\* job.status = RUNNING; set_ex with TTL timeout + expire; the channel is
\* made and the thread that calls the processing function is spawned.
Run(w) ==
    /\ wk[w].pc = "run"
    /\ LET r == wk[w]
           u == r.uuid
           job == [r.job EXCEPT !.status = "RUNNING"] IN
        /\ store' = SetEx(store, u, ToJson(job), ClaimTtl(r.timeout, r.expire))
        /\ wk' = [wk EXCEPT ![w].pc = "poll", ![w].job = job, ![w].k = 0,
                            ![w].timer = 0]
        /\ task' = [task EXCEPT ![u] = [st |-> "running", ret |-> <<>>, age |-> 0]]
        /\ chan' = [chan EXCEPT ![u] = Empty]
        /\ hist' = [hist EXCEPT ![u].status = job.status,
                                ![u].ttl = ClaimTtl(r.timeout, r.expire),
                                ![u].starts = @ + 1]
    /\ UNCHANGED <<uuids, nextUuid, prod, sinceDrop, order>>

\* One turn of for _ in 0..(timeout * freq): try_recv, break on an outcome,
\* else sleep; with the range used up the loop is left.
Poll(w) ==
    /\ wk[w].pc = "poll"
    /\ wk[w].timer = 0
    /\ LET r == wk[w]
           u == r.uuid
           got == TryRecv(chan[u]) IN
        IF r.k < PollBudget(r.timeout, r.freq)
        THEN /\ chan' = [chan EXCEPT ![u] = Empty]
             /\ wk' = [wk EXCEPT
                  ![w].job = [@ EXCEPT !.status = got[1], !.result = got[2]],
                  ![w].k = @ + 1,
                  ![w].pc = IF got[1] # "RUNNING" THEN "final" ELSE "poll",
                  ![w].timer = IF got[1] # "RUNNING" THEN 0 ELSE SleepMs(r.freq)]
        ELSE /\ wk' = [wk EXCEPT ![w].pc = "final"]
             /\ UNCHANGED chan
    /\ UNCHANGED <<store, uuids, nextUuid, prod, task, hist, sinceDrop, order>>

\* RUNNING becomes LOST; set_ex with TTL expire.
Final(w) ==
    /\ wk[w].pc = "final"
    /\ LET r == wk[w]
           u == r.uuid
           job == [r.job EXCEPT !.status = FinalStatus(@)] IN
        /\ store' = SetEx(store, u, ToJson(job), r.expire)
        /\ wk' = [wk EXCEPT ![w].pc = "after", ![w].job = job]
        /\ hist' = [hist EXCEPT ![u].status = job.status, ![u].ttl = r.expire]
    /\ UNCHANGED <<uuids, nextUuid, prod, task, chan, sinceDrop, order>>

\* panic!("LOST") when fall; else break or the next iteration.  The
\* receiving end of the channel goes out of scope, and the thread is no
\* longer watched: its runtime and return value are measured up to here.
After(w) ==
    /\ wk[w].pc = "after"
    /\ LET r == wk[w] IN
        IF Panics(r.fall, r.job.status)
        THEN wk' = [wk EXCEPT ![w].pc = "panicked"]
        ELSE wk' = [wk EXCEPT ![w] = AtLoopTop(@, NextIter(@.infinite))]
    /\ chan' = [chan EXCEPT ![wk[w].uuid] = Empty]
    /\ task' = [task EXCEPT ![wk[w].uuid].ret = <<>>, ![wk[w].uuid].age = 0]
    /\ UNCHANGED <<store, uuids, nextUuid, prod, hist, sinceDrop, order>>

\* The worker process dies (killed, power loss) anywhere inside work.
Crash(w) ==
    /\ wk[w].pc \in ActivePcs
    /\ wk' = [wk EXCEPT ![w] = AtLoopTop(@, "crashed")]
    /\ chan' = [u \in Uuids |-> IF u = wk[w].uuid THEN Empty ELSE chan[u]]
    /\ task' = [u \in Uuids |->
                  IF u = wk[w].uuid THEN [task[u] EXCEPT !.ret = <<>>, !.age = 0]
                  ELSE task[u]]
    /\ UNCHANGED <<store, uuids, nextUuid, prod, hist, sinceDrop, order>>

\* ------------------------------------------------------------ the thread
\* rx of the job's channel is alive while its worker is inside the iteration.
RxAlive(u) ==
    \E w \in Workers : wk[w].uuid = u /\ wk[w].pc \in {"poll", "final", "after"}

\* SendEnd with tx.send(r).unwrap(): the thread panics on the error of a
\* send to a receiver that is gone.
SendEndUnwrap(alive) == IF alive THEN "done" ELSE "panicked"

\* How the thread ends after tx.send(r).unwrap_or(()): the error of a send
\* to a receiver that is gone is replaced by (), the closure returns.
SendEnd(alive) == "done"

\* The processing function returns ret; tx.send(r).unwrap_or(()) puts the
\* outcome in the channel, or drops it when the receiver is gone.
TaskReturn(u, ret) ==
    /\ task[u].st = "running"
    /\ task' = [task EXCEPT ![u].st = SendEnd(RxAlive(u)),
                            ![u].ret = IF RxAlive(u) THEN ret ELSE <<>>]
    /\ chan' = [chan EXCEPT ![u] = IF RxAlive(u) THEN Outcome(ret) ELSE @]
    /\ UNCHANGED <<store, uuids, nextUuid, prod, wk, hist, sinceDrop, order>>

Returns == {<<"Ok", o>> : o \in Outputs} \cup {<<"Err">>}

\* -------------------------------------------------------------------- time
\* A key whose TTL has run out is gone.
Expire(rec) ==
    IF rec.ttl > TickMs THEN [rec EXCEPT !.ttl = @ - TickMs] ELSE NoRec

\* TickMs pass: TTLs and sleeps run down, watched running threads age.
Advance ==
    /\ store' = [u \in Uuids |-> Expire(store[u])]
    /\ wk' = [w \in Workers |-> [wk[w] EXCEPT !.timer = Max(@ - TickMs, 0)]]
    /\ task' = [u \in Uuids |->
                  IF task[u].st = "running" /\ RxAlive(u)
                  THEN [task[u] EXCEPT !.age = Min(@ + TickMs, AgeCap)]
                  ELSE task[u]]
    /\ hist' = [u \in Uuids |->
                  IF Exists(u) /\ store'[u] = NoRec /\ hist[u].pops = 0
                  THEN [hist[u] EXCEPT !.lapsed = TRUE]
                  ELSE hist[u]]
    /\ UNCHANGED <<uuids, nextUuid, prod, chan, sinceDrop, order>>

\* Time passes, however late that makes a sleeping worker wake up.
Tick == Advance

\* A worker whose sleep is over, or that is about to write, acts at once.
Due(w) == (wk[w].pc = "poll" /\ wk[w].timer = 0) \/ wk[w].pc \in {"final", "after"}

\* Time passes only when no worker is due.
TickPunctual ==
    /\ \A w \in Workers : ~Due(w)
    /\ Advance

\* ------------------------------------------------------------------- Next
Producer ==
    \/ \E a \in ArgsSet, e \in EnqueueExpires : EnqueueSet(a, e)
    \/ EnqueuePush
    \/ ProducerCrash
    \/ Drop

WorkerStep(w) ==
    \/ Pop(w)
    \/ PopTimeout(w)
    \/ Get(w)
    \/ Run(w)
    \/ Poll(w)
    \/ Final(w)
    \/ After(w)

\* Any call of work by w.
AnyWork(w) ==
    \E wait \in Waits, timeout \in Timeouts, freq \in Freqs,
       expire \in ResultExpires, fall \in BOOLEAN, infinite \in BOOLEAN :
        StartWork(w, wait, timeout, freq, expire, fall, infinite)

\* The call of the crate's documentation, queue.work(1, process, 5, 10, 30,
\* false, true), with its times scaled down to the modelled ones.
DocWork(w) ==
    \E timeout \in Timeouts, freq \in Freqs \ {0}, expire \in ResultExpires :
        StartWork(w, 1, timeout, freq, expire, FALSE, TRUE)

Thread == \E u \in Uuids, ret \in Returns : TaskReturn(u, ret)

\* One worker process, called with any arguments.
Solo == CHOOSE w \in Workers : TRUE

Next ==
    \/ Producer
    \/ AnyWork(Solo)
    \/ WorkerStep(Solo)
    \/ Crash(Solo)
    \/ Thread
    \/ Tick

NextPunctual ==
    \/ Producer
    \/ AnyWork(Solo)
    \/ WorkerStep(Solo)
    \/ Crash(Solo)
    \/ Thread
    \/ TickPunctual

\* Every worker process, each running the documented call.
NextTeam ==
    \/ Producer
    \/ \E w \in Workers : DocWork(w)
    \/ \E w \in Workers : WorkerStep(w)
    \/ \E w \in Workers : Crash(w)
    \/ Thread
    \/ TickPunctual

\* One worker; sleeps last at least their duration.
Spec == Init /\ [][Next]_vars

\* One worker; sleeps last exactly their duration and the worker acts as
\* soon as it can.
SpecPunctual == Init /\ [][NextPunctual]_vars

\* Concurrent workers on the same queue, each woken up on time.
SpecTeam == Init /\ [][NextTeam]_vars

\* One worker that keeps running while it can take a step, and time that
\* keeps passing: the worker process is scheduled and the clock does not stop.
SpecFair == Spec /\ WF_vars(WorkerStep(Solo)) /\ WF_vars(Tick)

\* ------------------------------------------------------ the drain scenario
\* The scenario of the worker example: every job is enqueued, then one worker
\* runs work(1, process, timeout, freq, expire, false, true) with a process
\* that answers at once.  The TTLs (30 s for enqueue, against 0.1 s per job)
\* are long enough for every job to be reached and for every result to be
\* there when the last job is done: scaled to one clock step per job.  The
\* worker has more than one check per job (50 in the example), so that the
\* answer is not lost in the race with the first check.
DrainExpire == MaxJobs + 1
DrainResultExpires == {MaxJobs + 1, MaxJobs + 2}
DrainTimeouts == {2, 3}

\* The return value of process(uuid, args): Ok(format!("hi from {}", uuid)).
Echo(uuid) == <<"Ok", <<"hi from", uuid>>>>

DrainEnqueue ==
    \/ \E a \in ArgsSet : EnqueueSet(a, DrainExpire)
    \/ EnqueuePush

\* The worker is started, before or after the jobs are enqueued.
DrainWork ==
    /\ \E timeout \in DrainTimeouts, freq \in Freqs \ {0},
          expire \in DrainResultExpires :
        StartWork(Solo, 1, timeout, freq, expire, FALSE, TRUE)

\* The process of job u returns its greeting.
EchoReturn == \E u \in Uuids : TaskReturn(u, Echo(u))

\* The worker has a store command to issue: a BLPOP on a list that is not
\* empty, the GET, or the write of RUNNING.
AtStore(w) ==
    \/ wk[w].pc = "pop" /\ uuids # <<>>
    \/ wk[w].pc \in {"get", "run"}

\* Time passes once every job is enqueued and the worker runs, when it
\* sleeps or waits in BLPOP and no process is running: enqueueing, the
\* store's commands and the process itself take no time.
TickDrain ==
    /\ nextUuid > MaxJobs /\ prod.pc = "idle"
    /\ wk[Solo].pc # "idle"
    /\ ~AtStore(Solo)
    /\ \A u \in Uuids : task[u].st # "running"
    /\ TickPunctual

NextDrain ==
    \/ DrainEnqueue
    \/ DrainWork
    \/ WorkerStep(Solo)
    \/ EchoReturn
    \/ TickDrain

\* The scenario with a producer and a worker that are scheduled, a process
\* that returns and a clock that does not stop.
SpecDrain ==
    /\ Init /\ [][NextDrain]_vars
    /\ WF_vars(DrainEnqueue) /\ WF_vars(DrainWork)
    /\ WF_vars(WorkerStep(Solo)) /\ WF_vars(EchoReturn) /\ WF_vars(TickDrain)

\* ----------------------------------------------------------------- claims
Terminal == {"FINISHED", "FAILED", "LOST"}

\* The changes of a stored status that the lifecycle allows; the first is
\* the creation of the record by enqueue.
Lifecycle ==
    {<<None, "QUEUED">>, <<"QUEUED", "RUNNING">>}
        \cup {<<"RUNNING", t>> : t \in Terminal}

\* hist[u].status is the status last written for u: what the store holds
\* while the record exists.
StoredIsLastWritten ==
    \A u \in Uuids : Exists(u) => StatusOf(u) = hist[u].status

\* A step changes the status written for u only along the lifecycle; a
\* record that is in the store before and after the step changes its status
\* only so, too.
StatusStep ==
    \A u \in Uuids :
        /\ hist'[u].status # hist[u].status =>
                <<hist[u].status, hist'[u].status>> \in Lifecycle
        /\ (store[u].ttl > 0 /\ store'[u].ttl > 0
                /\ store'[u].json[2] # store[u].json[2]) =>
                <<store[u].json[2], store'[u].json[2]>> \in Lifecycle

\* C1: under any interleaving of enqueue, drop and concurrent work loops,
\* every change of the status stored for a job is QUEUED->RUNNING,
\* RUNNING->FINISHED, RUNNING->FAILED or RUNNING->LOST; once a terminal
\* status has been stored for an id nothing else is stored for it, also not
\* after the record has expired.
C1_StatusTransitions == [](StoredIsLastWritten) /\ [][StatusStep]_vars

\* C1 witness: both workers have run a job to its end, one LOST and one
\* FINISHED.
C1_Witness ==
    \E u, v \in Uuids : hist[u].status = "LOST" /\ hist[v].status = "FINISHED"

Range(q) == {q[i] : i \in 1..Len(q)}

\* C2: with concurrent workers every uuid is popped at most once, is in the
\* list at most once and not once it has been popped, is held by at most one
\* worker, and its RUNNING write and its processing thread happen at most
\* once.
C2_ClaimedOnce ==
    /\ \A u \in Uuids : hist[u].pops <= 1 /\ hist[u].starts <= 1
    /\ \A i, j \in 1..Len(uuids) : uuids[i] = uuids[j] => i = j
    /\ \A u \in Range(uuids) : hist[u].pops = 0
    /\ \A w, v \in Workers :
        (w # v /\ wk[w].uuid # NoUuid) => wk[w].uuid # wk[v].uuid

\* C2 witness: two workers supervise two different jobs at the same time.
C2_Witness ==
    \E w, v \in Workers :
        /\ w # v
        /\ wk[w].pc = "poll" /\ wk[v].pc = "poll"
        /\ wk[w].uuid # wk[v].uuid

\* The worker w has written the final record of its job and not gone on.
IterationDone(w) == wk[w].pc = "after"

\* The thread of u has returned ret while its worker still held the channel.
Returned(u, kind) == task[u].st = "done" /\ task[u].ret # <<>> /\ task[u].ret[1] = kind

\* The thread of u returned before its worker's timeout was over.
InTime(w, u) == task[u].age < wk[w].timeout * MsPerSec

\* One of the worker's checks took the thread's message out of the channel.
Received(u) == task[u].st = "done" /\ task[u].ret # <<>> /\ chan[u] = Empty

\* C3 as stated, read in its favour (the function succeeds within the
\* timeout and the worker makes checks at all): once the iteration that
\* claimed the job is over, status is FINISHED and result is the value.
C3_Original ==
    \A w \in Workers :
        LET u == wk[w].uuid IN
        (IterationDone(w) /\ wk[w].freq >= 1 /\ Returned(u, "Ok") /\ InTime(w, u)
            /\ Exists(u))
            => StatusOf(u) = "FINISHED" /\ ResultOf(u) = task[u].ret[2]

\* C3 amended: when the function succeeds and one of the worker's checks
\* receives its message, then once the iteration is over FINISHED is what was
\* written last and, while the record exists, status is FINISHED and result
\* is the value the function returned.
C3_FinishedWhenReceived ==
    \A w \in Workers :
        LET u == wk[w].uuid IN
        (IterationDone(w) /\ Returned(u, "Ok") /\ Received(u))
            => /\ hist[u].status = "FINISHED"
               /\ Exists(u) =>
                    StatusOf(u) = "FINISHED" /\ ResultOf(u) = task[u].ret[2]

\* C3 witness: the iteration is over, the success was received and the
\* record is there.
C3_Witness ==
    \E w \in Workers :
        /\ IterationDone(w) /\ Returned(wk[w].uuid, "Ok") /\ Received(wk[w].uuid)
        /\ Exists(wk[w].uuid)

\* The worker leaves the end of an iteration normally: by the break or by
\* going on to the next BLPOP, not by a panic.
LeavesNormally(w) ==
    (wk[w].pc = "after" /\ wk'[w].pc # "after")
        => wk'[w].pc \in {"pop", "exit", "crashed"}

\* C4 as stated, read in its favour (the function returns its error within
\* the timeout and the worker makes checks at all): once the iteration is
\* over, status is FAILED and there is no result.
C4_Original ==
    \A w \in Workers :
        LET u == wk[w].uuid IN
        (IterationDone(w) /\ wk[w].freq >= 1 /\ Returned(u, "Err") /\ InTime(w, u)
            /\ Exists(u))
            => StatusOf(u) = "FAILED" /\ ResultOf(u) = None

\* The state part of C4 amended.
FailedWhenReceived ==
    \A w \in Workers :
        LET u == wk[w].uuid IN
        (IterationDone(w) /\ Returned(u, "Err") /\ Received(u))
            => /\ hist[u].status = "FAILED"
               /\ wk[w].job.status = "FAILED"
               /\ Exists(u) => StatusOf(u) = "FAILED" /\ ResultOf(u) = None

\* C4 amended: when the function returns an error and one of the worker's
\* checks receives its message, then once the iteration is over FAILED is
\* what was written last and, while the record exists, status is FAILED and
\* there is no result; the worker then leaves the iteration normally (the
\* error is no error of work, and no panic).
C4_FailedWhenReceived ==
    /\ [](FailedWhenReceived)
    /\ [][\A w \in Workers :
            wk[w].job.status = "FAILED" => LeavesNormally(w)]_vars

\* C4 witness: the iteration is over, the failure was received and the
\* record is there.
C4_Witness ==
    \E w \in Workers :
        /\ IterationDone(w) /\ Returned(wk[w].uuid, "Err") /\ Received(wk[w].uuid)
        /\ Exists(wk[w].uuid)

\* The runtime of the thread of u exceeds the timeout of its worker w: it
\* returned later than that, or it still runs when that time is over.
ExceedsTimeout(w, u) ==
    \/ task[u].st # "none" /\ task[u].age > wk[w].timeout * MsPerSec
    \/ task[u].st = "running" /\ task[u].age >= wk[w].timeout * MsPerSec

C6_QueuedUntilRunning ==
    \A u \in Uuids :
        /\ (Exists(u) /\ hist[u].starts = 0)
                => StatusOf(u) = "QUEUED" /\ ResultOf(u) = None
        /\ hist[u].starts = 0 => hist[u].status \in {None, "QUEUED"}
        /\ hist[u].pops > 0 => hist[u].pushed

\* C6 witness: one record is an orphan (its producer died before the push)
\* and another was popped by a worker that died before it wrote RUNNING;
\* both records are still there.
C6_Witness ==
    \E u, v \in Uuids :
        /\ Exists(u) /\ ~hist[u].pushed /\ prod.uuid # u
        /\ Exists(v) /\ hist[v].pops = 1 /\ hist[v].starts = 0
        /\ \A w \in Workers : wk[w].pc \in {"idle", "crashed"}

\* C7: a record whose TTL ran out before any worker popped its uuid stays
\* unobservable: status and result fail with the error of the missing key in
\* every later state.
C7_ExpiredStaysGone ==
    \A u \in Uuids :
        hist[u].lapsed => StatusOf(u) = "NotFound" /\ ResultOf(u) = "NotFound"

\* C7 witness: the record of u expired unclaimed, and afterwards a worker
\* popped the stale uuid and went past its GET.
C7_Witness ==
    \E u \in Uuids :
        /\ hist[u].lapsed /\ hist[u].pops = 1
        /\ \A w \in Workers : wk[w].uuid # u

\* C8: when exactly one uuid has been pushed since the last drop(), the list
\* holds nothing but that uuid, and holds it until a worker pops it; after a
\* drop() the list never holds a uuid pushed before it.
C8_DropThenEnqueue ==
    sinceDrop.dropped =>
        /\ Range(uuids) \subseteq Range(sinceDrop.pushed)
        /\ \A x \in Uuids :
            (sinceDrop.pushed = <<x>> /\ hist[x].pops = 0) => uuids = <<x>>

\* C8 witness: a uuid pushed before the drop() was never popped, one uuid
\* was pushed after it, and a worker's next pop has claimed that one.
C8_Witness ==
    \E x, y \in Uuids :
        /\ sinceDrop.dropped /\ sinceDrop.pushed = <<x>>
        /\ y # x /\ hist[y].pushed /\ hist[y].pops = 0
        /\ \E w \in Workers : wk[w].uuid = x

\* A worker called with infinite = false and wait >= 1.
OneShot(w) == wk[w].pc \in ActivePcs /\ ~wk[w].infinite /\ wk[w].wait >= 1

WorkOver(w) == wk[w].pc \in {"exit", "panicked", "crashed"}

\* C9: work called with infinite = false and wait >= 1 terminates: it leaves
\* its one BLPOP for good (one pop, at most one uuid), makes at most
\* timeout * freq checks, and in the end has returned or panicked, whatever
\* the pop gave and whether or not the processing function has returned.
C9_OneShotTerminates ==
    /\ [](\A w \in Workers :
            wk[w].k <= PollBudget(wk[w].timeout, wk[w].freq))
    /\ [][\A w \in Workers :
            (~wk[w].infinite /\ wk[w].pc \in ActivePcs \ {"pop"})
                => wk'[w].pc # "pop"]_vars
    /\ OneShot(Solo) ~> WorkOver(Solo)

\* C9 witness: the one-shot worker has returned while the processing
\* function of the job it claimed is still running.
C9_Witness ==
    \E w \in Workers, u \in Uuids :
        /\ wk[w].pc = "exit" /\ ~wk[w].infinite /\ wk[w].wait >= 1
        /\ hist[u].status = "LOST" /\ task[u].st = "running"

\* What C10 says of a step of worker w.
PanicStep(w) ==
    LET u == wk[w].uuid IN
    /\ (wk[w].pc # "panicked" /\ wk'[w].pc = "panicked") => wk[w].pc = "after"
    /\ (wk[w].pc = "after" /\ wk'[w].pc \notin {"after", "crashed"}) =>
        /\ wk'[w].pc = "panicked" <=> (wk[w].fall /\ hist[u].status = "LOST")
        /\ wk'[w].pc = "panicked" =>
            (hist[u].status = "LOST" /\ hist[u].ttl = wk[w].expire)
        /\ (~wk[w].fall /\ wk[w].infinite) => wk'[w].pc = "pop"

\* C10: the worker panics exactly when the status it has just persisted is
\* LOST and fall is set; when it panics the last write of the record was LOST
\* with TTL expire; with fall = false a LOST job lets the loop go on, and
\* FINISHED and FAILED never make it panic.
C10_PanicIffLostAndFall ==
    /\ [](\A w \in Workers :
            wk[w].pc = "panicked" => (wk[w].fall /\ wk[w].job.status = "LOST"))
    /\ [][\A w \in Workers : PanicStep(w)]_vars

\* C10 witness: a worker has panicked and the LOST record is in the store.
C10_Witness ==
    \E w \in Workers :
        wk[w].pc = "panicked" /\ StatusOf(wk[w].uuid) = "LOST"

\* The list is empty and every job is FINISHED with the output of its own
\* invocation as its result.
Drained ==
    /\ uuids = <<>>
    /\ \A u \in Uuids :
        StatusOf(u) = "FINISHED" /\ ResultOf(u) = Echo(u)[2]

\* C11: when all the jobs have been enqueued with a long TTL and one worker
\* runs work with repeat = true and a process that answers at once, then
\* eventually the list is empty and every job is FINISHED, each with the
\* output of its own invocation.
C11_Drains == <>Drained

\* C11 witness: the worker is back at its BLPOP, the list is empty and every
\* job is FINISHED with its own result.
C11_Witness == wk[Solo].pc = "pop" /\ wk[Solo].infinite /\ Drained

\* The place of x in the sequence q of distinct elements.
Pos(q, x) == CHOOSE i \in 1..Len(q) : q[i] = x

\* The elements of a are elements of b and come in the order they have in b.
InOrderOf(a, b) ==
    /\ \A i \in 1..Len(a) : a[i] \in Range(b)
    /\ \A i, j \in 1..Len(a) : i < j => Pos(b, a[i]) < Pos(b, a[j])

\* A worker that runs alone writes RUNNING for u only when no uuid pushed
\* after u has been claimed.
ClaimsInPushOrder ==
    \A u \in Uuids :
        (hist'[u].starts # hist[u].starts
            /\ Cardinality({w \in Workers : wk[w].pc # "idle"}) = 1)
            => \A x \in Range(order.pushed) :
                Pos(order.pushed, x) > Pos(order.pushed, u) => hist[x].starts = 0

\* C12: the list is FIFO.  With any number of workers, the uuids popped so
\* far followed by the uuids in the list are in the order in which they were
\* pushed; and a worker that runs alone claims (writes RUNNING for) jobs in
\* the order in which they were pushed.
C12_Fifo ==
    /\ [](InOrderOf(order.popped \o uuids, order.pushed))
    /\ [][ClaimsInPushOrder]_vars

\* C12 witness: every job has been pushed, popped and claimed, and two
\* workers took part.
C12_Witness ==
    /\ Len(order.popped) = MaxJobs
    /\ \A u \in Uuids : hist[u].starts = 1
    /\ \A w \in Workers : wk[w].pc # "idle"

\* The worker that claimed u no longer checks for its signal: the loop of
\* checks is over, or the worker has gone on, returned or panicked.
GivenUp(u) ==
    /\ hist[u].starts = 1
    /\ \A w \in Workers :
        wk[w].uuid = u =>
            \/ wk[w].pc \in {"final", "after", "panicked"}
            \/ wk[w].pc = "poll"
                /\ wk[w].k = PollBudget(wk[w].timeout, wk[w].freq)

\* The thread of u ends in this step, after the worker has given up on u.
LateSignal(u) == GivenUp(u) /\ task[u].st = "running" /\ task'[u].st # "running"

\* What C13 says of a step.
LateSignalStep ==
    \A u \in Uuids :
        /\ LateSignal(u) =>
            /\ task'[u].st = "done"
            /\ store' = store /\ hist' = hist /\ wk' = wk
        /\ hist[u].status = "LOST" =>
            /\ hist'[u].status = "LOST"
            /\ store'[u].ttl > 0 =>
                store'[u].json[2] = "LOST" /\ store'[u].json[4] = None

\* C13: a completion signal that the thread delivers after the loop of
\* checks has given up on its job is discarded.  The thread ends normally
\* and the step changes neither the store nor the worker; a job that has been
\* written LOST stays LOST with no result; the signal is not taken for the
\* outcome of another job: a job is FINISHED or FAILED only when its own
\* thread has returned and the worker took that message out of the job's
\* own channel.
C13_LateSignalDiscarded ==
    /\ [][LateSignalStep]_vars
    /\ [](\A v \in Uuids :
            hist[v].status \in {"FINISHED", "FAILED"} =>
                task[v].st = "done" /\ chan[v] = Empty)
    /\ [](\A v \in Uuids : task[v].st \in {"none", "running", "done"})

\* C13 witness: the thread of a job stored as LOST has returned, and the
\* worker supervises the next job, whose thread still runs.
C13_Witness ==
    \E u, v \in Uuids, w \in Workers :
        /\ u # v
        /\ hist[u].status = "LOST" /\ task[u].st = "done"
        /\ wk[w].uuid = v /\ wk[w].pc = "poll" /\ task[v].st = "running"
        /\ StatusOf(u) = "LOST"

\* The step writes the record of u.
Written(u) ==
    /\ store'[u] # NoRec
    /\ store'[u].json # store[u].json \/ store'[u].ttl > store[u].ttl

\* What C14 says of a step that writes the record of u: the TTL it sets.
TtlStep ==
    \A u \in Uuids :
        Written(u) =>
            LET status == store'[u].json[2]
                ttl == store'[u].ttl IN
            /\ status = "QUEUED" =>
                /\ prod'.uuid = u
                /\ \E e \in EnqueueExpires : ttl = e * MsPerSec
            /\ status = "RUNNING" =>
                \E w \in Workers :
                    /\ wk[w].uuid = u
                    /\ ttl = (wk[w].timeout + wk[w].expire) * MsPerSec
            /\ status \in Terminal =>
                \E w \in Workers :
                    /\ wk[w].uuid = u
                    /\ ttl = wk[w].expire * MsPerSec

\* C14: every write of a job record sets the TTL of its phase: expire for
\* the QUEUED record of enqueue, timeout + expire for the RUNNING record,
\* expire alone for FINISHED, FAILED and LOST, whatever time the record had
\* left; every stored record has a TTL, which is never more than the TTL of
\* its last write.
C14_TtlPerPhase ==
    /\ [][TtlStep]_vars
    /\ [](\A u \in Uuids :
            store[u].json # <<>> =>
                /\ store[u].ttl > 0
                /\ store[u].ttl <= hist[u].ttl * MsPerSec)

\* C14 witness: the final write has just replaced a RUNNING record that had
\* all of timeout + expire left by a terminal record with TTL expire.
C14_Witness ==
    \E w \in Workers :
        /\ wk[w].pc = "after" /\ wk[w].k = 1
        /\ task[wk[w].uuid].age = 0
        /\ hist[wk[w].uuid].status \in Terminal
        /\ store[wk[w].uuid].ttl = wk[w].expire * MsPerSec
        /\ wk[w].timeout >= 1

\* What C15 says of the step that follows the GET of a missing record.
MissingStep ==
    \A w \in Workers :
        (wk[w].pc = "get" /\ ~Exists(wk[w].uuid)
            /\ wk'[w].pc \notin {"get", "crashed"})
            => /\ wk'[w].pc = IF wk[w].infinite THEN "pop" ELSE "exit"
               /\ wk'[w].uuid = NoUuid
               /\ store' = store /\ task' = task /\ hist' = hist

\* C15: when work pops a uuid whose record expired before it was claimed,
\* the uuid is dropped silently: the processing function is not started for
\* it, no record is written for it, and work returns Ok when infinite is
\* false and goes back to BLPOP when it is true.
C15_MissingRecordSkipped ==
    /\ [][MissingStep]_vars
    /\ [](\A u \in Uuids :
            hist[u].lapsed =>
                hist[u].starts = 0 /\ task[u].st = "none" /\ ~Exists(u))
    /\ [](\A w \in Workers : wk[w].pc # "failed")

\* C15 witness: a worker called with infinite = false has popped a uuid
\* whose record had expired, and has returned; nothing was started.
C15_Witness ==
    \E w \in Workers, u \in Uuids :
        /\ wk[w].pc = "exit" /\ ~wk[w].infinite
        /\ hist[u].lapsed /\ hist[u].pops = 1 /\ task[u].st = "none"
        /\ \A v \in Uuids : hist[v].starts = 0

\* What C16 says of a step in which worker w makes a check.
CheckStep ==
    \A w \in Workers :
        LET u == wk[w].uuid IN
        (wk[w].pc = "poll" /\ wk'[w].k = wk[w].k + 1) =>
            /\ wk[w].k < wk[w].timeout * wk[w].freq
            /\ chan[u] # Empty =>
                /\ wk'[w].pc = "final" /\ wk'[w].timer = 0
                /\ wk'[w].job.status = chan[u][1]
                /\ wk'[w].job.result = chan[u][2]
                /\ wk'[w].job.status \in {"FINISHED", "FAILED"}
            /\ chan[u] = Empty =>
                wk'[w].pc = "poll" /\ wk'[w].job.status = "RUNNING"

\* C16: the worker makes at most timeout * freq checks for a job; the first
\* check that finds a signal records its outcome and ends the polling at
\* once, without a sleep and without the checks that are left; from then to
\* the final write no check is made; and the job is stored as LOST only when
\* all timeout * freq checks were made and none found a signal.
C16_PollBudgetEarlyBreak ==
    /\ [][CheckStep]_vars
    /\ [][\A w \in Workers :
            wk[w].pc \in {"final", "after"} => wk'[w].k <= wk[w].k]_vars
    /\ [](\A w \in Workers :
            /\ wk[w].k <= wk[w].timeout * wk[w].freq
            /\ (wk[w].pc \in {"after", "panicked"}
                    /\ hist[wk[w].uuid].status = "LOST")
                => wk[w].k = wk[w].timeout * wk[w].freq)

\* C16 witness: the first of two checks found the signal and the final
\* write was made with one check left.
C16_Witness ==
    \E w \in Workers :
        /\ wk[w].pc = "after"
        /\ wk[w].k = 1 /\ wk[w].timeout * wk[w].freq = 2
        /\ StatusOf(wk[w].uuid) = "FINISHED"

\* The record of u was written, and is there unless its TTL ran out while
\* no worker had popped u.
WrittenBefore(u) ==
    hist[u].status # None /\ (Exists(u) \/ hist[u].lapsed)

\* What C17 says of a step: a uuid is pushed only when its record has been
\* written, and a record leaves the store only when its TTL runs out.
PushStep ==
    \A u \in Uuids :
        /\ (u \notin Range(uuids) /\ u \in Range(uuids')) => WrittenBefore(u)
        /\ (Exists(u) /\ store'[u] = NoRec) =>
            /\ store[u].ttl <= TickMs
            /\ \A v \in Uuids : store'[v].ttl <= store[v].ttl

\* C17: enqueue writes the record before it pushes the uuid.  Every uuid in
\* the list, and every uuid a worker has popped and is about to load, has had
\* its QUEUED record written; the record of a uuid in the list is missing
\* only when its TTL has run out, and no step but the passing of time removes
\* a record.
C17_RecordBeforePush ==
    /\ [](\A u \in Range(uuids) : WrittenBefore(u))
    /\ [](\A w \in Workers :
            wk[w].pc = "get" => hist[wk[w].uuid].status = "QUEUED")
    /\ [][PushStep]_vars

\* C17 witness: a worker has popped a uuid and finds its record missing; the
\* record had been written and expired in the list.
C17_Witness ==
    \E w \in Workers :
        /\ wk[w].pc = "get" /\ ~Exists(wk[w].uuid)
        /\ hist[wk[w].uuid].lapsed
        /\ hist[wk[w].uuid].status = "QUEUED"

\* The signal of u is in the channel, unread.
Unread(u) == task[u].st = "done" /\ chan[u] # Empty

\* What C18 says of a step of a worker whose checks are used up: it takes
\* nothing from the channel and leaves the job's status as it is.
NoLastLook ==
    \A w \in Workers :
        (wk[w].pc = "poll" /\ wk[w].k = wk[w].timeout * wk[w].freq
            /\ wk'[w].uuid = wk[w].uuid)
            => /\ wk'[w].k = wk[w].k
               /\ wk'[w].job = wk[w].job
               /\ Unread(wk[w].uuid) => chan' = chan

\* C18: the worker makes no check after the sleep that follows its last
\* check.  Once the final write is made, the job is FINISHED or FAILED only
\* if one of the timeout * freq checks took the signal out of the channel; a
\* signal that is in the channel unread (it came after the last check) leaves
\* the job LOST; with timeout * freq = 0 no check is made and the job is
\* LOST.
C18_NoCheckAfterLastSleep ==
    /\ [][NoLastLook]_vars
    /\ [](\A w \in Workers :
            LET u == wk[w].uuid IN
            wk[w].pc = "after" =>
                /\ hist[u].status \in {"FINISHED", "FAILED"} =>
                    Received(u) /\ wk[w].k \in 1..(wk[w].timeout * wk[w].freq)
                /\ Unread(u) => hist[u].status = "LOST"
                /\ wk[w].timeout * wk[w].freq = 0 =>
                    hist[u].status = "LOST" /\ wk[w].k = 0)

\* C18 witness: the thread returned within the timeout, after the last of
\* the two checks; its signal is in the channel and the job is stored LOST.
C18_Witness ==
    \E w \in Workers :
        /\ wk[w].pc = "after"
        /\ wk[w].k = 2
        /\ Unread(wk[w].uuid) /\ InTime(w, wk[w].uuid)
        /\ StatusOf(wk[w].uuid) = "LOST"

\* The worker w supervises its job: RUNNING is written, the final write is
\* still to come.
Supervising(w) == wk[w].pc \in {"poll", "final"}

RunningJobs == {u \in Uuids : hist[u].status = "RUNNING"}

\* The jobs that a worker supervises.
Held == {wk[w].uuid : w \in {v \in Workers : Supervising(v)}}

\* The worker processes that have been started, and those that have died.
Started == {w \in Workers : wk[w].pc # "idle"}
Crashed == {w \in Workers : wk[w].pc = "crashed"}

\* What C20 says of a step of a worker that runs alone: it claims a job only
\* when every job claimed before has its terminal status, and it writes a
\* terminal status for the only job that is RUNNING.
OneAtATimeStep ==
    \A u \in Uuids :
        Cardinality(Started) = 1 =>
            /\ hist'[u].starts # hist[u].starts =>
                \A x \in Uuids \ {u} :
                    hist[x].starts = 1 => hist[x].status \in Terminal
            /\ (hist[u].status = "RUNNING" /\ hist'[u].status \in Terminal) =>
                RunningJobs = {u}

\* C20: a worker supervises one job at a time.  A job whose last written
\* status is RUNNING is supervised by a worker, unless the worker that
\* claimed it has died: a worker that is at its BLPOP, its GET or its
\* RUNNING write has persisted the terminal status of every job it claimed.
\* So there are never more RUNNING records than worker processes, and a
\* worker that runs alone persists terminal statuses in the order of its
\* claims, while threads of LOST jobs may still run.
C20_OneJobAtATime ==
    /\ [](Cardinality(RunningJobs \ Held) <= Cardinality(Crashed))
    /\ [](Cardinality({u \in Uuids : StatusOf(u) = "RUNNING"})
            <= Cardinality(Started))
    /\ [][OneAtATimeStep]_vars

\* C20 witness: a worker supervises a job while the thread of a job it has
\* stored as LOST before still runs.
C20_Witness ==
    \E u, v \in Uuids, w \in Workers :
        /\ u # v
        /\ hist[u].status = "LOST" /\ task[u].st = "running"
        /\ wk[w].uuid = v /\ wk[w].pc = "poll" /\ task[v].st = "running"
        /\ Cardinality(Started) = 1

====
